---- MODULE Spec2Model ----
(***************************************************************************)
(* AirWrite-AI: the gesture recognizer (src/gestures/gesture_logic.py),    *)
(* the stroke smoother (src/strokes/stroke_smoothing.py), the stroke       *)
(* tracker (src/strokes/stroke_tracker.py) and the frame loop of the       *)
(* application (src/main.py).                                              *)
(*                                                                         *)
(* Python values are represented as follows.  A point (x, y) is the tuple  *)
(* <<x, y>>; a list is a sequence; None is the empty tuple and an          *)
(* optional value v is <<v>>.  A call of a smoothing function or of a      *)
(* tracker method yields a record that says whether it returned or raised  *)
(* (exc), with the value returned (val / ret).  Wall-clock fields          *)
(* (stroke_start_time, timestamp, duration, fps) and the drawing state of  *)
(* the user interface are left out: no operation modelled here reads them. *)
(***************************************************************************)
EXTENDS Integers, Sequences, FiniteSets, TLC

VARIABLES
    tracker,       \* the StrokeTracker object (its fields)
    recognizer,    \* the GestureRecognizer object (its fields)
    is_writing,    \* AirWritingApp.is_writing
    space_count,   \* AirWritingApp.space_count
    running,       \* "run" while the frame loop runs, "crashed" once an exception left it
    call,          \* the last call made or frame processed: what went in, what came out
    history        \* raw labels given to update_gesture since creation or the last reset

vars == <<tracker, recognizer, is_writing, space_count, running, call, history>>

----------------------------------------------------------------------------
(* Bounds of the model. *)

MaxRaw == 4        \* longest raw point sequence of a stroke in progress
MaxStrokes == 2    \* most strokes in the finished collection
MaxHold == 6       \* largest gesture_frame_count
MaxSpace == 1      \* largest space_count
MaxFrameRaw == 3       \* longest raw point sequence in the frame loop
MaxFrameStrokes == 1   \* most strokes in the finished collection in the frame loop
MaxScenarioRaw == 4    \* longest raw point sequence in scenario A
MaxScenarioHold == 8   \* largest gesture_frame_count in scenario A
MaxDedupLen == 4         \* longest point sequence given to remove_duplicates alone
MaxSimplifyLen == 4      \* longest point sequence given to douglas_peucker_simplify alone
MaxSavgolLen == 4        \* longest point sequence given to savitzky_golay_smooth alone
MaxMultiPassLen == 3     \* longest point sequence given to multi_pass_smooth alone
MaxPasses == 2           \* longest list of methods given to multi_pass_smooth
MaxDefaultLen == 2       \* longest point sequence given to the functions called with their defaults

(* Constants of the program. *)

GESTURE_HOLD_FRAMES == 5       \* main.py: GestureRecognizer(gesture_hold_frames=5)
MIN_DISTANCE_THRESHOLD == 5    \* main.py: StrokeTracker(min_distance_threshold=5)
MIN_DISTANCE == 2              \* remove_duplicates(points, min_distance=2)
MIN_STROKE_POINTS == 3         \* end_stroke: len(self.current_stroke_raw) >= 3
REAL_TIME_MIN_POINTS == 3      \* _update_smoothed_stroke: len(self.current_stroke_raw) > 3

----------------------------------------------------------------------------
(* Python values. *)

None == <<>>
Some(v) == <<v>>

NoExc == "none"
Returned(v) == [exc |-> NoExc, val |-> v]
Raised(e) == [exc |-> e, val |-> None]

Min(a, b) == IF a <= b THEN a ELSE b
Max(a, b) == IF a >= b THEN a ELSE b
Abs(a) == IF a >= 0 THEN a ELSE -a

\* int(x) and ndarray.astype(int) of the quotient n / d (d > 0): towards zero.
Trunc(n, d) == IF n >= 0 THEN n \div d ELSE -((-n) \div d)

\* The squared Euclidean distance.  Every distance test of the tracker and of
\* remove_duplicates is sqrt(s) >= t for integers s and t, which is s >= t * t.
SqDist(p, q) == (p[1] - q[1]) * (p[1] - q[1]) + (p[2] - q[2]) * (p[2] - q[2])

Xs(points) == [i \in 1..Len(points) |-> points[i][1]]
Ys(points) == [i \in 1..Len(points) |-> points[i][2]]
Zip(xs, ys) == [i \in 1..Len(xs) |-> <<xs[i], ys[i]>>]

RECURSIVE SumSeq(_, _, _)
SumSeq(s, from, to) == IF from > to THEN 0 ELSE s[from] + SumSeq(s, from + 1, to)

----------------------------------------------------------------------------
(* StrokeSmoother *)

\* self.smoothing_methods: the names set_smoothing_method and smooth_stroke know.
smoothing_methods == {"moving_average", "gaussian", "savitzky_golay", "spline", "kalman"}

\* The keyword parameters each smoothing method declares besides points.  A call
\* self.smoothing_methods[method](points, **kwargs) with any other keyword raises
\* TypeError before the method's body runs.
MethodParams(method) ==
    CASE method = "moving_average" -> {"window_size"}
      [] method = "gaussian" -> {"sigma"}
      [] method = "savitzky_golay" -> {"window_length", "polyorder"}
      [] method = "spline" -> {"smoothing_factor", "num_points"}
      [] method = "kalman" -> {"process_variance", "measurement_variance"}

Arg(kwargs, name, default) == IF name \in DOMAIN kwargs THEN kwargs[name] ELSE default

\* moving_average_smooth: points shorter than the window are returned as they
\* are; otherwise point i (0-based) is the mean of points[start:end] with
\* start = max(0, i - window_size // 2), end = min(n, i + window_size // 2 + 1),
\* stored into an integer array (np.zeros_like of an integer array), which
\* truncates it.
MovingAverageAxis(xs, window_size) ==
    [i \in 1..Len(xs) |->
        LET start == Max(0, (i - 1) - window_size \div 2)
            end == Min(Len(xs), (i - 1) + window_size \div 2 + 1)
        IN Trunc(SumSeq(xs, start + 1, end), end - start)]

moving_average_smooth(points, window_size) ==
    IF Len(points) < window_size
    THEN Returned(points)
    ELSE Returned(Zip(MovingAverageAxis(Xs(points), window_size),
                      MovingAverageAxis(Ys(points), window_size)))

\* The Gaussian kernel exp(-0.5 (x / sigma)^2), x = -half..half, in units of
\* 1/10000, for the two sigmas the program uses (sigma is given in tenths:
\* 15 is 1.5, the final chain's; 20 is 2.0, the default).
GaussKernel(sigma) ==
    CASE sigma = 15 -> <<286, 1353, 4111, 8007, 10000, 8007, 4111, 1353, 286>>
      [] sigma = 20 -> <<111, 439, 1353, 3247, 6065, 8825, 10000, 8825, 6065,
                         3247, 1353, 439, 111>>

\* np.convolve(xs, kernel / kernel.sum(), mode='same') for len(xs) >= len(kernel):
\* the centred window, zeros beyond the ends; then astype(int).
GaussAxis(xs, kernel) ==
    LET half == Len(kernel) \div 2
        at(i) == IF i >= 1 /\ i <= Len(xs) THEN xs[i] ELSE 0
        prod(i) == [j \in 1..Len(kernel) |-> kernel[j] * at(i + half + 1 - j)]
    IN [i \in 1..Len(xs) |->
           Trunc(SumSeq(prod(i), 1, Len(kernel)), SumSeq(kernel, 1, Len(kernel)))]

\* gaussian_smooth that returns only the empty sequence as it is.
gaussian_smooth_empty_only(points, sigma) ==
    LET w == (6 * sigma) \div 10
        window_size == IF w % 2 = 0 THEN w + 1 ELSE w
    IN IF Len(points) < 1
       THEN Returned(points)
       ELSE IF Len(points) < window_size
            THEN Raised("ValueError")
            ELSE Returned(Zip(GaussAxis(Xs(points), GaussKernel(sigma)),
                              GaussAxis(Ys(points), GaussKernel(sigma))))

\* gaussian_smooth: fewer than 3 points are returned as they are.  The kernel has
\* window_size = int(6 * sigma) entries, made odd.  np.convolve(..., mode='same')
\* returns max(len(points), window_size) values, so for fewer points than
\* window_size the assignment smoothed[:, dim] = ... raises ValueError (shape
\* mismatch); nothing in gaussian_smooth catches it.
gaussian_smooth(points, sigma) ==
    LET w == (6 * sigma) \div 10
        window_size == IF w % 2 = 0 THEN w + 1 ELSE w
    IN IF Len(points) < 3
       THEN Returned(points)
       ELSE IF Len(points) < window_size
            THEN Raised("ValueError")
            ELSE Returned(Zip(GaussAxis(Xs(points), GaussKernel(sigma)),
                              GaussAxis(Ys(points), GaussKernel(sigma))))

\* scipy.signal.savgol_filter(xs, window_length, 3) with its default mode
\* 'interp': the least-squares cubic through a window of window_length values,
\* evaluated at the value's place in the window.  Row r of SavgolRows gives the
\* weights (over SavgolDen) of the fitted value at place r.  The first and last
\* window_length // 2 values are read off the cubic fitted to the first and last
\* window, the others off the window centred on them.
SavgolRows(window_length) ==
    CASE window_length = 5 ->
           << <<69, 4, -6, 4, -1>>, <<4, 54, 24, -16, 4>>, <<-6, 24, 34, 24, -6>>,
              <<4, -16, 24, 54, 4>>, <<-1, 4, -6, 4, 69>> >>
      [] window_length = 7 ->
           << <<39, 8, -4, -4, 1, 4, -2>>, <<8, 19, 16, 6, -4, -7, 4>>,
              <<-4, 16, 19, 12, 2, -4, 1>>, <<-4, 6, 12, 14, 12, 6, -4>>,
              <<1, -4, 2, 12, 19, 16, -4>>, <<4, -7, -4, 6, 16, 19, 8>>,
              <<-2, 4, 1, -4, -4, 8, 39>> >>

SavgolDen(window_length) ==
    CASE window_length = 5 -> 70
      [] window_length = 7 -> 42

savgol_filter(xs, window_length) ==
    LET n == Len(xs)
        half == window_length \div 2
        first(i) == IF i <= half THEN 1
                    ELSE IF i > n - half THEN n - window_length + 1
                    ELSE i - half
        row(i) == SavgolRows(window_length)[i - first(i) + 1]
        prod(i) == [j \in 1..window_length |-> row(i)[j] * xs[first(i) + j - 1]]
    IN [i \in 1..n |-> Trunc(SumSeq(prod(i), 1, window_length), SavgolDen(window_length))]

\* savitzky_golay_smooth falling back to the moving average with its default
\* window.
savitzky_golay_smooth_default_window(points, window_length, polyorder) ==
    IF Len(points) < window_length
    THEN Returned(points)
    ELSE LET odd == IF window_length % 2 = 0 THEN window_length + 1 ELSE window_length
             wl == Max(odd, polyorder + 2)
         IN IF Len(points) < wl
            THEN moving_average_smooth(points, 5)
            ELSE Returned(Zip(savgol_filter(Xs(points), wl), savgol_filter(Ys(points), wl)))

\* savitzky_golay_smooth.  savgol_filter does not raise for the arguments that
\* reach it here (window_length odd, <= len(points), > polyorder), so the except
\* branch (moving average with the default window) is never taken.
savitzky_golay_smooth(points, window_length, polyorder) ==
    IF Len(points) < window_length
    THEN Returned(points)
    ELSE LET odd == IF window_length % 2 = 0 THEN window_length + 1 ELSE window_length
             wl == Max(odd, polyorder + 2)
         IN IF Len(points) < wl
            THEN moving_average_smooth(points, Len(points) \div 2)
            ELSE Returned(Zip(savgol_filter(Xs(points), wl), savgol_filter(Ys(points), wl)))

\* The Kalman gain of step k, for the position (first) and the velocity (second),
\* in millionths.  The covariance recursion of kalman_smooth (covariance, S, K)
\* reads no measurement, so with covariance = 1000 I, Q = 1e-5 I, R = 1e-1 I the
\* gain of step k is the same number for every stroke and each axis.
KalmanGain(k) ==
    CASE k = 1 -> <<999950, 499975>>
      [] k = 2 -> <<999800, 999500>>
      [] k = 3 -> <<833272, 499917>>
      [] k = 4 -> <<699993, 299997>>
      [] k = 5 -> <<600040, 200044>>
      [] k = 6 -> <<523909, 142948>>
      [] k = 7 -> <<464465, 107287>>
      [] k = 8 -> <<416955, 83540>>
      [] k = 9 -> <<378210, 66945>>
      [] k = 10 -> <<346071, 54906>>
      [] k = 11 -> <<319028, 45906>>
      [] k = 12 -> <<296000, 39015>>

Micro == 1000000

\* gain * y / Micro for a gain and a y in millionths, by three-digit limbs so that
\* no intermediate product leaves 32 bits.
MulMicro(gain, y) ==
    LET a == Abs(y)
        gh == gain \div 1000
        gl == gain % 1000
        ah == a \div 1000
        al == a % 1000
        r == gh * ah + ((gh * al + gl * ah) + (gl * al) \div 1000) \div 1000
    IN IF y >= 0 THEN r ELSE -r

\* One axis of kalman_smooth, position x and velocity v in millionths: predict
\* (state = F @ state), innovation y = measurement - H @ state, update
\* (state = state + K @ y), output int(state).
RECURSIVE KalmanAxis(_, _, _, _)
KalmanAxis(zs, k, x, v) ==
    IF k > Len(zs)
    THEN <<>>
    ELSE LET xp == x + v
             y == zs[k] * Micro - xp
             xn == xp + MulMicro(KalmanGain(k)[1], y)
             vn == v + MulMicro(KalmanGain(k)[2], y)
         IN <<Trunc(xn, Micro)>> \o KalmanAxis(zs, k + 1, xn, vn)

\* kalman_smooth with process_variance = 1e-5 and measurement_variance = 1e-1,
\* the only values the program passes (they are also the defaults).
kalman_smooth(points, process_variance, measurement_variance) ==
    IF Len(points) < 2
    THEN Returned(points)
    ELSE Returned(Zip(KalmanAxis(Xs(points), 1, points[1][1] * Micro, 0),
                      KalmanAxis(Ys(points), 1, points[1][2] * Micro, 0)))

\* spline_smooth: fewer than 4 points are returned as they are.  The B-spline fit
\* of 4 points or more (scipy splprep / splev) is not modelled: no call of the
\* tracker reaches it.
spline_smooth(points, smoothing_factor, num_points) ==
    CASE Len(points) < 4 -> Returned(points)

\* The loop of remove_duplicates with "distance > min_distance".
RECURSIVE RemoveFromStrict(_, _, _, _)
RemoveFromStrict(points, i, filtered, min_distance) ==
    IF i > Len(points)
    THEN filtered
    ELSE RemoveFromStrict(points, i + 1,
                          IF SqDist(points[i], filtered[Len(filtered)])
                               > min_distance * min_distance
                          THEN Append(filtered, points[i])
                          ELSE filtered,
                          min_distance)

\* remove_duplicates: keep the first point, then each point at least min_distance
\* from the last point kept.
RECURSIVE RemoveFrom(_, _, _, _)
RemoveFrom(points, i, filtered, min_distance) ==
    IF i > Len(points)
    THEN filtered
    ELSE RemoveFrom(points, i + 1,
                    IF SqDist(points[i], filtered[Len(filtered)]) >= min_distance * min_distance
                    THEN Append(filtered, points[i])
                    ELSE filtered,
                    min_distance)

remove_duplicates(points, min_distance) ==
    IF Len(points) < 2 THEN points ELSE RemoveFrom(points, 2, <<points[1]>>, min_distance)

\* perpendicular_distance of douglas_peucker_simplify, as the square of the
\* distance written n / d: the distance to line_start when the two ends are the
\* same point, else numerator / denominator.
perpendicular_distance(point, line_start, line_end) ==
    IF line_start = line_end
    THEN [n |-> SqDist(point, line_start), d |-> 1]
    ELSE LET numerator == Abs((line_end[2] - line_start[2]) * point[1]
                              - (line_end[1] - line_start[1]) * point[2]
                              + line_end[1] * line_start[2]
                              - line_end[2] * line_start[1])
         IN [n |-> numerator * numerator, d |-> SqDist(line_end, line_start)]

\* "distance > max_distance" on two squares n / d.
Farther(distance, max_distance) == distance.n * max_distance.d > max_distance.n * distance.d

\* simplify_recursive, "Find point with maximum distance": the loop from i on.
RECURSIVE FindMax(_, _, _, _)
FindMax(pts, i, max_distance, max_index) ==
    IF i > Len(pts) - 1
    THEN [max_distance |-> max_distance, max_index |-> max_index]
    ELSE IF Farther(perpendicular_distance(pts[i], pts[1], pts[Len(pts)]), max_distance)
         THEN FindMax(pts, i + 1,
                      perpendicular_distance(pts[i], pts[1], pts[Len(pts)]), i)
         ELSE FindMax(pts, i + 1, max_distance, max_index)

\* simplify_recursive joining "left + right": the point of the split twice.
RECURSIVE simplify_recursive_split_twice(_, _)
simplify_recursive_split_twice(pts, epsilon) ==
    IF Len(pts) < 3
    THEN pts
    ELSE LET m == FindMax(pts, 2, [n |-> 0, d |-> 1], 1)
         IN IF m.max_distance.n > epsilon * epsilon * m.max_distance.d
            THEN simplify_recursive_split_twice(SubSeq(pts, 1, m.max_index), epsilon)
                 \o simplify_recursive_split_twice(SubSeq(pts, m.max_index, Len(pts)),
                                                   epsilon)
            ELSE <<pts[1], pts[Len(pts)]>>

\* simplify_recursive (indices from 1: max_index starts at the first point).
\* "max_distance > epsilon" is compared on the squares; epsilon >= 0.
RECURSIVE simplify_recursive(_, _)
simplify_recursive(pts, epsilon) ==
    IF Len(pts) < 3
    THEN pts
    ELSE LET m == FindMax(pts, 2, [n |-> 0, d |-> 1], 1)
         IN IF m.max_distance.n > epsilon * epsilon * m.max_distance.d
            THEN LET left == simplify_recursive(SubSeq(pts, 1, m.max_index), epsilon)
                     right == simplify_recursive(SubSeq(pts, m.max_index, Len(pts)),
                                                 epsilon)
                 IN SubSeq(left, 1, Len(left) - 1) \o right
            ELSE <<pts[1], pts[Len(pts)]>>

douglas_peucker_simplify(points, epsilon) ==
    IF Len(points) < 3 THEN points ELSE simplify_recursive(points, epsilon)

\* self.smoothing_methods[method](points, **kwargs)
CallMethod(method, points, kwargs) ==
    IF ~(DOMAIN kwargs \subseteq MethodParams(method))
    THEN Raised("TypeError")
    ELSE CASE method = "moving_average" ->
                moving_average_smooth(points, Arg(kwargs, "window_size", 5))
           [] method = "gaussian" ->
                gaussian_smooth(points, Arg(kwargs, "sigma", 20))
           [] method = "savitzky_golay" ->
                savitzky_golay_smooth(points, Arg(kwargs, "window_length", 11),
                                      Arg(kwargs, "polyorder", 3))
           [] method = "spline" ->
                spline_smooth(points, Arg(kwargs, "smoothing_factor", 0),
                              Arg(kwargs, "num_points", None))
           [] method = "kalman" ->
                kalman_smooth(points, Arg(kwargs, "process_variance", "1e-5"),
                              Arg(kwargs, "measurement_variance", "1e-1"))

\* smooth_stroke(points, method, **kwargs)
smooth_stroke(points, method, kwargs) ==
    IF Len(points) < 2
    THEN Returned(points)
    ELSE LET deduped == remove_duplicates(points, MIN_DISTANCE)
         IN IF Len(deduped) < 2
            THEN Returned(deduped)
            ELSE IF method \in smoothing_methods
                 THEN CallMethod(method, deduped, kwargs)
                 ELSE Returned(deduped)

\* The chain multi_pass_smooth uses when methods is None.
DefaultMethods ==
    << [name |-> "kalman",
        kwargs |-> [process_variance |-> "1e-5", measurement_variance |-> "1e-1"]],
       [name |-> "savitzky_golay", kwargs |-> [window_length |-> 7, polyorder |-> 3]],
       [name |-> "gaussian", kwargs |-> [sigma |-> 15]] >>

\* The loop of multi_pass_smooth taking the list from its end.
RECURSIVE MultiPassReversed(_, _, _)
MultiPassReversed(result, methods, i) ==
    IF i > Len(methods)
    THEN Returned(result)
    ELSE IF Len(result) >= 2
         THEN LET m == methods[Len(methods) + 1 - i]
                  r == smooth_stroke(result, m.name, m.kwargs)
              IN IF r.exc # NoExc THEN r ELSE MultiPassReversed(r.val, methods, i + 1)
         ELSE MultiPassReversed(result, methods, i + 1)

\* The loop of multi_pass_smooth from pass i on; an exception of a pass leaves
\* the loop and the function.
RECURSIVE MultiPassFrom(_, _, _)
MultiPassFrom(result, methods, i) ==
    IF i > Len(methods)
    THEN Returned(result)
    ELSE IF Len(result) >= 2
         THEN LET r == smooth_stroke(result, methods[i].name, methods[i].kwargs)
              IN IF r.exc # NoExc THEN r ELSE MultiPassFrom(r.val, methods, i + 1)
         ELSE MultiPassFrom(result, methods, i + 1)

\* multi_pass_smooth(points, methods): methods is None when the argument is
\* omitted, Some(list) when a list is passed.
multi_pass_smooth(points, methods) ==
    MultiPassFrom(points, IF methods = None THEN DefaultMethods ELSE methods[1], 1)

----------------------------------------------------------------------------
(* StrokeTracker.  Each method is an operator from the object t (and the     *)
(* method's arguments) to the object after the call (t), what the call       *)
(* returned (ret, None for a method that returns nothing or raised) and the  *)
(* exception that left it (exc).                                             *)

Outcome(t, ret, exc) == [t |-> t, ret |-> ret, exc |-> exc]

\* StrokeTracker.__init__
StrokeTracker(min_distance_threshold, enable_smoothing, smoothing_method) ==
    [current_stroke |-> <<>>,
     current_stroke_raw |-> <<>>,
     all_strokes |-> <<>>,
     is_tracking |-> FALSE,
     min_distance_threshold |-> min_distance_threshold,
     last_point |-> None,
     enable_smoothing |-> enable_smoothing,
     smoothing_method |-> smoothing_method,
     real_time_smooth |-> TRUE]

\* start_stroke that leaves no last point.
start_stroke_no_last_point(t, point) ==
    Outcome([t EXCEPT !.current_stroke = <<point>>,
                      !.current_stroke_raw = <<point>>,
                      !.is_tracking = TRUE,
                      !.last_point = None],
            None, NoExc)

\* start_stroke that begins with an empty collection too.
start_stroke_drops_strokes(t, point) ==
    Outcome([t EXCEPT !.current_stroke = <<point>>,
                      !.current_stroke_raw = <<point>>,
                      !.all_strokes = <<>>,
                      !.is_tracking = TRUE,
                      !.last_point = point],
            None, NoExc)

start_stroke(t, point) ==
    Outcome([t EXCEPT !.current_stroke = <<point>>,
                      !.current_stroke_raw = <<point>>,
                      !.is_tracking = TRUE,
                      !.last_point = point],
            None, NoExc)

\* The assignment to current_stroke in _update_smoothed_stroke: r is what
\* smooth_stroke returned or raised.
SetCurrentStroke(t, r) ==
    IF r.exc # NoExc
    THEN Outcome(t, None, r.exc)
    ELSE Outcome([t EXCEPT !.current_stroke = r.val], None, NoExc)

\* _update_smoothed_stroke
update_smoothed_stroke(t) ==
    IF t.enable_smoothing /\ t.real_time_smooth
       /\ Len(t.current_stroke_raw) > REAL_TIME_MIN_POINTS
    THEN SetCurrentStroke(t,
             smooth_stroke(t.current_stroke_raw, t.smoothing_method,
                           [window_length |-> Min(7, Len(t.current_stroke_raw)),
                            polyorder |-> Min(3, Len(t.current_stroke_raw) - 1)]))
    ELSE Outcome([t EXCEPT !.current_stroke = t.current_stroke_raw], None, NoExc)

\* "return True" after _update_smoothed_stroke, unless that raised.
ReturnTrue(u) == IF u.exc # NoExc THEN u ELSE Outcome(u.t, Some(TRUE), NoExc)

\* add_point, the tests that let the point in: tracking, and no last point or
\* "distance >= self.min_distance_threshold" (on the squares).
Accepts(t, point) ==
    /\ t.is_tracking
    /\ \/ t.last_point = None
       \/ SqDist(point, t.last_point)
            >= t.min_distance_threshold * t.min_distance_threshold

\* add_point without its test of the distance.
add_point_ungated(t, point) ==
    IF ~t.is_tracking
    THEN Outcome(t, Some(FALSE), NoExc)
    ELSE ReturnTrue(update_smoothed_stroke(
             [t EXCEPT !.current_stroke_raw = Append(@, point),
                       !.last_point = point]))

\* add_point without its test of is_tracking.
add_point_untracked(t, point) ==
    IF t.last_point = None
       \/ SqDist(point, t.last_point) >= t.min_distance_threshold * t.min_distance_threshold
    THEN ReturnTrue(update_smoothed_stroke(
             [t EXCEPT !.current_stroke_raw = Append(@, point),
                       !.last_point = point]))
    ELSE Outcome(t, Some(FALSE), NoExc)

\* add_point.  Both accepting branches append the point, make it the last point
\* and update the preview.
add_point(t, point) ==
    IF ~t.is_tracking
    THEN Outcome(t, Some(FALSE), NoExc)
    ELSE IF Accepts(t, point)
         THEN ReturnTrue(update_smoothed_stroke(
                  [t EXCEPT !.current_stroke_raw = Append(@, point),
                            !.last_point = point]))
         ELSE Outcome(t, Some(FALSE), NoExc)

\* The record end_stroke stores (stroke_data).
StrokeData(smoothed_points, raw) ==
    [points |-> smoothed_points,
     raw_points |-> raw,
     point_count |-> Len(raw),
     smoothed_count |-> Len(smoothed_points)]

\* end_stroke from the line that stores the stroke: t1 is the tracker with
\* is_tracking cleared, r what the smoothing (with smoothing off, the copy of
\* the raw points) returned or raised.
StoreStroke(t1, r) ==
    IF r.exc # NoExc
    THEN Outcome(t1, None, r.exc)
    ELSE Outcome([t1 EXCEPT !.all_strokes =
                                Append(@, StrokeData(r.val, t1.current_stroke_raw)),
                            !.current_stroke = <<>>,
                            !.current_stroke_raw = <<>>],
                 Some(r.val), NoExc)

\* end_stroke storing a stroke of two raw points too.
end_stroke_from_two(t) ==
    IF ~t.is_tracking
    THEN Outcome(t, None, NoExc)
    ELSE IF Len(t.current_stroke_raw) >= MIN_STROKE_POINTS - 1
         THEN StoreStroke([t EXCEPT !.is_tracking = FALSE],
                          IF t.enable_smoothing
                          THEN multi_pass_smooth(t.current_stroke_raw, None)
                          ELSE Returned(t.current_stroke_raw))
         ELSE Outcome([t EXCEPT !.is_tracking = FALSE,
                                !.current_stroke = <<>>,
                                !.current_stroke_raw = <<>>],
                      None, NoExc)

end_stroke(t) ==
    IF ~t.is_tracking
    THEN Outcome(t, None, NoExc)
    ELSE IF Len(t.current_stroke_raw) >= MIN_STROKE_POINTS
         THEN StoreStroke([t EXCEPT !.is_tracking = FALSE],
                          IF t.enable_smoothing
                          THEN multi_pass_smooth(t.current_stroke_raw, None)
                          ELSE Returned(t.current_stroke_raw))
         ELSE Outcome([t EXCEPT !.is_tracking = FALSE,
                                !.current_stroke = <<>>,
                                !.current_stroke_raw = <<>>],
                      None, NoExc)

\* clear_all_strokes that forgets the stroke in progress.
clear_finished_strokes_only(t) ==
    Outcome([t EXCEPT !.all_strokes = <<>>], None, NoExc)

clear_all_strokes(t) ==
    Outcome([t EXCEPT !.current_stroke = <<>>,
                      !.current_stroke_raw = <<>>,
                      !.all_strokes = <<>>,
                      !.is_tracking = FALSE,
                      !.last_point = None],
            None, NoExc)

\* clear_last_stroke popping the oldest stroke (pop(0)).
clear_last_stroke_first(t) ==
    IF Len(t.all_strokes) > 0
    THEN Outcome([t EXCEPT !.all_strokes = Tail(@)], Some(t.all_strokes[1]), NoExc)
    ELSE Outcome(t, None, NoExc)

clear_last_stroke(t) ==
    IF Len(t.all_strokes) > 0
    THEN Outcome([t EXCEPT !.all_strokes = SubSeq(@, 1, Len(@) - 1)],
                 Some(t.all_strokes[Len(t.all_strokes)]), NoExc)
    ELSE Outcome(t, None, NoExc)

toggle_smoothing(t) ==
    Outcome([t EXCEPT !.enable_smoothing = ~@], Some(~t.enable_smoothing), NoExc)

\* set_smoothing_method without the test of the name.
set_smoothing_method_unchecked(t, method) ==
    Outcome([t EXCEPT !.smoothing_method = method], Some(TRUE), NoExc)

set_smoothing_method(t, method) ==
    IF method \in smoothing_methods
    THEN Outcome([t EXCEPT !.smoothing_method = method], Some(TRUE), NoExc)
    ELSE Outcome(t, Some(FALSE), NoExc)

----------------------------------------------------------------------------
(* GestureRecognizer.  A landmark is its normalized (x, y) in hundredths;    *)
(* hand_landmarks.landmark maps the landmark ids to them.                    *)

GESTURE_NONE == "none"
GESTURE_WRITING == "writing"
GESTURE_STOP == "stop"
GESTURE_SPACE == "space"
GESTURE_CLEAR == "clear"

WRIST == 0
THUMB_TIP == 4
INDEX_TIP == 8
INDEX_MCP == 5
MIDDLE_TIP == 12
MIDDLE_MCP == 9
RING_TIP == 16
RING_MCP == 13
PINKY_TIP == 20
PINKY_MCP == 17

\* GestureRecognizer.__init__
GestureRecognizer(gesture_hold_frames) ==
    [current_gesture |-> GESTURE_NONE,
     previous_gesture |-> GESTURE_NONE,
     gesture_hold_frames |-> gesture_hold_frames,
     gesture_frame_count |-> 0,
     confirmed_gesture |-> GESTURE_NONE]

\* calculate_distance, squared and in hundredths: a test d > c (d < c) of the
\* source on the distance d is the test on its square against c * c.
calculate_distance(point1, point2) == SqDist(point1, point2)

\* tip_to_wrist > mcp_to_wrist * 0.9, both sides squared.
is_finger_extended(hand_landmarks, tip_id, mcp_id, wrist_coords) ==
    LET tip == hand_landmarks.landmark[tip_id]
        mcp == hand_landmarks.landmark[mcp_id]
        tip_to_wrist == calculate_distance(tip, wrist_coords)
        mcp_to_wrist == calculate_distance(mcp, wrist_coords)
    IN 100 * tip_to_wrist > 81 * mcp_to_wrist

\* distance > 0.1
is_thumb_extended(hand_landmarks) ==
    calculate_distance(hand_landmarks.landmark[THUMB_TIP],
                       hand_landmarks.landmark[INDEX_MCP]) > 10 * 10

\* thumb_index_distance < 0.05
IsPinch(hand_landmarks) ==
    calculate_distance(hand_landmarks.landmark[THUMB_TIP],
                       hand_landmarks.landmark[INDEX_TIP]) < 5 * 5

Count(b) == IF b THEN 1 ELSE 0

\* detect_gesture with the rule of SPACE tried before the rule of CLEAR.
detect_gesture_space_first(hand_landmarks) ==
    IF hand_landmarks = None
    THEN GESTURE_NONE
    ELSE LET hand == hand_landmarks[1]
             wrist == hand.landmark[WRIST]
             index_extended == is_finger_extended(hand, INDEX_TIP, INDEX_MCP, wrist)
             middle_extended == is_finger_extended(hand, MIDDLE_TIP, MIDDLE_MCP, wrist)
             ring_extended == is_finger_extended(hand, RING_TIP, RING_MCP, wrist)
             pinky_extended == is_finger_extended(hand, PINKY_TIP, PINKY_MCP, wrist)
             thumb_extended == is_thumb_extended(hand)
             extended_count == Count(index_extended) + Count(middle_extended)
                               + Count(ring_extended) + Count(pinky_extended)
         IN IF index_extended /\ middle_extended /\ ~ring_extended /\ ~pinky_extended
            THEN GESTURE_SPACE
            ELSE IF IsPinch(hand) /\ ~ring_extended /\ ~pinky_extended
            THEN GESTURE_CLEAR
            ELSE IF index_extended /\ ~middle_extended /\ ~ring_extended /\ ~pinky_extended
            THEN GESTURE_WRITING
            ELSE IF extended_count = 0 /\ ~thumb_extended
            THEN GESTURE_STOP
            ELSE GESTURE_NONE

\* detect_gesture.  The argument is None or Some(hand_landmarks); frame_width and
\* frame_height only scale pixel coordinates that the function does not use.
detect_gesture(hand_landmarks) ==
    IF hand_landmarks = None
    THEN GESTURE_NONE
    ELSE LET hand == hand_landmarks[1]
             wrist == hand.landmark[WRIST]
             index_extended == is_finger_extended(hand, INDEX_TIP, INDEX_MCP, wrist)
             middle_extended == is_finger_extended(hand, MIDDLE_TIP, MIDDLE_MCP, wrist)
             ring_extended == is_finger_extended(hand, RING_TIP, RING_MCP, wrist)
             pinky_extended == is_finger_extended(hand, PINKY_TIP, PINKY_MCP, wrist)
             thumb_extended == is_thumb_extended(hand)
             extended_count == Count(index_extended) + Count(middle_extended)
                               + Count(ring_extended) + Count(pinky_extended)
         IN IF IsPinch(hand) /\ ~ring_extended /\ ~pinky_extended
            THEN GESTURE_CLEAR
            ELSE IF index_extended /\ middle_extended /\ ~ring_extended /\ ~pinky_extended
            THEN GESTURE_SPACE
            ELSE IF index_extended /\ ~middle_extended /\ ~ring_extended /\ ~pinky_extended
            THEN GESTURE_WRITING
            ELSE IF extended_count = 0 /\ ~thumb_extended
            THEN GESTURE_STOP
            ELSE GESTURE_NONE

\* update_gesture, "Check if same gesture is being held".
HoldGesture(r, detected_gesture) ==
    IF detected_gesture = r.current_gesture
    THEN [r EXCEPT !.gesture_frame_count = @ + 1]
    ELSE [r EXCEPT !.current_gesture = detected_gesture,
                   !.gesture_frame_count = 1]

\* ConfirmGesture confirming one frame late (> for >=).
ConfirmGestureLate(r) ==
    IF r.gesture_frame_count > r.gesture_hold_frames
       /\ r.confirmed_gesture # r.current_gesture
    THEN [r |-> [r EXCEPT !.previous_gesture = r.confirmed_gesture,
                          !.confirmed_gesture = r.current_gesture],
          gesture |-> r.current_gesture,
          gesture_changed |-> TRUE]
    ELSE [r |-> r, gesture |-> r.confirmed_gesture, gesture_changed |-> FALSE]

\* ConfirmGesture returning the label that was confirmed before the call.
ConfirmGestureStaleLabel(r) ==
    IF r.gesture_frame_count >= r.gesture_hold_frames
       /\ r.confirmed_gesture # r.current_gesture
    THEN [r |-> [r EXCEPT !.previous_gesture = r.confirmed_gesture,
                          !.confirmed_gesture = r.current_gesture],
          gesture |-> r.confirmed_gesture,
          gesture_changed |-> TRUE]
    ELSE [r |-> r, gesture |-> r.confirmed_gesture, gesture_changed |-> FALSE]

\* ConfirmGesture with its two assignments in the other order: previous_gesture
\* takes the label that has just been confirmed.
ConfirmGesturePreviousAfter(r) ==
    IF r.gesture_frame_count >= r.gesture_hold_frames
       /\ r.confirmed_gesture # r.current_gesture
    THEN [r |-> [r EXCEPT !.previous_gesture = r.current_gesture,
                          !.confirmed_gesture = r.current_gesture],
          gesture |-> r.current_gesture,
          gesture_changed |-> TRUE]
    ELSE [r |-> r, gesture |-> r.confirmed_gesture, gesture_changed |-> FALSE]

\* update_gesture, "Confirm gesture if held long enough": the recognizer after
\* the call (r) and the tuple it returns.
ConfirmGesture(r) ==
    IF r.gesture_frame_count >= r.gesture_hold_frames
       /\ r.confirmed_gesture # r.current_gesture
    THEN [r |-> [r EXCEPT !.previous_gesture = r.confirmed_gesture,
                          !.confirmed_gesture = r.current_gesture],
          gesture |-> r.current_gesture,
          gesture_changed |-> TRUE]
    ELSE [r |-> r, gesture |-> r.confirmed_gesture, gesture_changed |-> FALSE]

update_gesture(r, hand_landmarks) ==
    ConfirmGesture(HoldGesture(r, detect_gesture(hand_landmarks)))

reset(r) ==
    [r EXCEPT !.current_gesture = GESTURE_NONE,
              !.confirmed_gesture = GESTURE_NONE,
              !.previous_gesture = GESTURE_NONE,
              !.gesture_frame_count = 0]

----------------------------------------------------------------------------
(* The inputs. *)

\* A hand: the wrist and the four knuckles fixed, each finger tip up or down, the
\* thumb tip at one of six places.  Every combination of the six predicates of
\* detect_gesture (pinch, four fingers extended, thumb extended) is the reading
\* of one of these hands at least.
TipUp == (INDEX_TIP :> <<45, 52>>) @@ (MIDDLE_TIP :> <<50, 35>>)
         @@ (RING_TIP :> <<56, 38>>) @@ (PINKY_TIP :> <<63, 45>>)
TipDown == (INDEX_TIP :> <<47, 72>>) @@ (MIDDLE_TIP :> <<50, 70>>)
           @@ (RING_TIP :> <<54, 72>>) @@ (PINKY_TIP :> <<58, 73>>)
ThumbTips == {<<45, 55>>, <<45, 49>>, <<30, 65>>, <<40, 62>>, <<46, 68>>, <<48, 70>>}

Hand(index_up, middle_up, ring_up, pinky_up, thumb_tip) ==
    [landmark |->
        (WRIST :> <<50, 90>>) @@ (THUMB_TIP :> thumb_tip)
        @@ (INDEX_MCP :> <<45, 60>>) @@ (MIDDLE_MCP :> <<50, 58>>)
        @@ (RING_MCP :> <<55, 60>>) @@ (PINKY_MCP :> <<60, 63>>)
        @@ (INDEX_TIP :> IF index_up THEN TipUp[INDEX_TIP] ELSE TipDown[INDEX_TIP])
        @@ (MIDDLE_TIP :> IF middle_up THEN TipUp[MIDDLE_TIP] ELSE TipDown[MIDDLE_TIP])
        @@ (RING_TIP :> IF ring_up THEN TipUp[RING_TIP] ELSE TipDown[RING_TIP])
        @@ (PINKY_TIP :> IF pinky_up THEN TipUp[PINKY_TIP] ELSE TipDown[PINKY_TIP])]

Hands == {Hand(i, m, r, p, t) : i \in BOOLEAN, m \in BOOLEAN, r \in BOOLEAN,
                                p \in BOOLEAN, t \in ThumbTips}

\* One hand for each label: index up; fist; index and middle up; pinch with the
\* index up; open hand.
SampleHands == {Hand(TRUE, FALSE, FALSE, FALSE, <<40, 62>>),
                Hand(FALSE, FALSE, FALSE, FALSE, <<40, 62>>),
                Hand(TRUE, TRUE, FALSE, FALSE, <<30, 65>>),
                Hand(TRUE, FALSE, FALSE, FALSE, <<45, 49>>),
                Hand(TRUE, TRUE, TRUE, TRUE, <<30, 65>>)}

\* Points given to the tracker's methods: (3, 4) is exactly the threshold away
\* from (0, 0), (4, 0) is closer than the threshold to both.
TrackerPoints == {<<0, 0>>, <<3, 4>>, <<4, 0>>}

\* Pixel positions of the index finger tip in the frame loop.
TipPoints == {<<0, 0>>, <<5, 0>>, <<20, 0>>}

\* Names given to set_smoothing_method: the five methods and an unknown one.
MethodNames == smoothing_methods \cup {"median"}

----------------------------------------------------------------------------
(* The state after construction (AirWritingApp.__init__). *)

\* What call records of the tracker as it was when the call was made.
Pre(t) ==
    [is_tracking |-> t.is_tracking,
     point_count |-> Len(t.current_stroke_raw),
     stroke_count |-> Len(t.all_strokes)]

\* The last call: the operation, its argument, the tracker before it, what it
\* returned and the exception it raised.
Called(op, arg, pre, ret, exc) ==
    [op |-> op, arg |-> arg, pre |-> pre, ret |-> ret, exc |-> exc]

Init ==
    /\ tracker = StrokeTracker(MIN_DISTANCE_THRESHOLD, TRUE, "savitzky_golay")
    /\ recognizer = GestureRecognizer(GESTURE_HOLD_FRAMES)
    /\ is_writing = FALSE
    /\ space_count = 0
    /\ running = "run"
    /\ call = Called("init", None, None, None, NoExc)
    /\ history = <<>>

----------------------------------------------------------------------------
(* The stroke tracker alone: its methods called in any order.  A caller may  *)
(* go on using the object after a call raised.                               *)

TrackerCall(op, arg, o) ==
    /\ Len(o.t.current_stroke_raw) <= MaxRaw
    /\ Len(o.t.all_strokes) <= MaxStrokes
    /\ tracker' = o.t
    /\ call' = Called(op, arg, Pre(tracker), o.ret, o.exc)
    /\ UNCHANGED <<recognizer, is_writing, space_count, running, history>>

StartStroke == \E point \in TrackerPoints :
    TrackerCall("start_stroke", point, start_stroke(tracker, point))

AddPoint == \E point \in TrackerPoints :
    /\ Accepts(tracker, point) => Len(tracker.current_stroke_raw) < MaxRaw
    /\ TrackerCall("add_point", point, add_point(tracker, point))

EndStroke == TrackerCall("end_stroke", None, end_stroke(tracker))

ClearAllStrokes == TrackerCall("clear_all_strokes", None, clear_all_strokes(tracker))

ClearLastStroke == TrackerCall("clear_last_stroke", None, clear_last_stroke(tracker))

ToggleSmoothing == TrackerCall("toggle_smoothing", None, toggle_smoothing(tracker))

SetSmoothingMethod == \E method \in MethodNames :
    TrackerCall("set_smoothing_method", method, set_smoothing_method(tracker, method))

NextTracker ==
    \/ StartStroke
    \/ AddPoint
    \/ EndStroke
    \/ ClearAllStrokes
    \/ ClearLastStroke
    \/ ToggleSmoothing
    \/ SetSmoothingMethod

SpecTracker == Init /\ [][NextTracker]_vars

----------------------------------------------------------------------------
(* AirWritingApp: one action for one pass of the loop of run.  The place of  *)
(* the hand in the frame (the pixel position of its index finger tip) is     *)
(* drawn apart from its pose: detect_gesture reads distances between         *)
(* landmarks only, which moving the hand does not change.  An exception of   *)
(* the tracker is caught nowhere in run: it ends the loop.                   *)

\* The key of a pass: 'c', or "none" for no key and for 'h', which toggles the
\* guide (display only).  The pass that reads 'q' or ESC, or fails to read a
\* frame, is the last one: the passes up to it are the ones modelled.
Keys == {"none", "c"}

App(t, w, s) == [stroke_tracker |-> t, is_writing |-> w, space_count |-> s]

Handled(a, completed_stroke, exc) ==
    [a |-> a, completed_stroke |-> completed_stroke, exc |-> exc]

\* "self.is_writing = False" and the call of end_stroke, whose outcome is o.
StopWriting(a, o) ==
    Handled([a EXCEPT !.is_writing = FALSE, !.stroke_tracker = o.t], o.ret, o.exc)

\* handle_gesture_actions without "if not gesture_changed: return".
handle_gesture_actions_every_frame(a, gesture, gesture_changed, finger_tip_pos) ==
    IF gesture = GESTURE_WRITING
    THEN IF ~a.is_writing /\ finger_tip_pos # None
         THEN Handled([a EXCEPT !.is_writing = TRUE,
                                !.stroke_tracker = start_stroke(@, finger_tip_pos[1]).t],
                      None, NoExc)
         ELSE Handled(a, None, NoExc)
    ELSE IF gesture = GESTURE_STOP
    THEN IF a.is_writing
         THEN StopWriting(a, end_stroke(a.stroke_tracker))
         ELSE Handled(a, None, NoExc)
    ELSE IF gesture = GESTURE_SPACE
    THEN Handled([a EXCEPT !.space_count = @ + 1], None, NoExc)
    ELSE IF gesture = GESTURE_CLEAR
    THEN Handled([a EXCEPT !.stroke_tracker = clear_all_strokes(@).t,
                           !.is_writing = FALSE,
                           !.space_count = 0],
                 None, NoExc)
    ELSE Handled(a, None, NoExc)

\* handle_gesture_actions
handle_gesture_actions(a, gesture, gesture_changed, finger_tip_pos) ==
    IF ~gesture_changed THEN Handled(a, None, NoExc)
    ELSE IF gesture = GESTURE_WRITING
    THEN IF ~a.is_writing /\ finger_tip_pos # None
         THEN Handled([a EXCEPT !.is_writing = TRUE,
                                !.stroke_tracker = start_stroke(@, finger_tip_pos[1]).t],
                      None, NoExc)
         ELSE Handled(a, None, NoExc)
    ELSE IF gesture = GESTURE_STOP
    THEN IF a.is_writing
         THEN StopWriting(a, end_stroke(a.stroke_tracker))
         ELSE Handled(a, None, NoExc)
    ELSE IF gesture = GESTURE_SPACE
    THEN Handled([a EXCEPT !.space_count = @ + 1], None, NoExc)
    ELSE IF gesture = GESTURE_CLEAR
    THEN Handled([a EXCEPT !.stroke_tracker = clear_all_strokes(@).t,
                           !.is_writing = FALSE,
                           !.space_count = 0],
                 None, NoExc)
    ELSE Handled(a, None, NoExc)

Branch(a, r, ret, exc) == [a |-> a, r |-> r, ret |-> ret, exc |-> exc]

FrameRet(gesture, gesture_changed, completed_stroke) ==
    [gesture |-> gesture, gesture_changed |-> gesture_changed,
     completed_stroke |-> completed_stroke]

\* run, "If writing, track the stroke": o is the outcome of add_point.
TrackStroke(h, u, o) ==
    Branch([h.a EXCEPT !.stroke_tracker = o.t], u.r,
           FrameRet(u.gesture, u.gesture_changed, h.completed_stroke), o.exc)

\* run, the branch "if hand_detected" after handle_gesture_actions, whose outcome is h.
AfterHandle(h, u, finger_tip_pos) ==
    IF h.exc = NoExc /\ h.a.is_writing /\ finger_tip_pos # None
    THEN TrackStroke(h, u, add_point(h.a.stroke_tracker, finger_tip_pos[1]))
    ELSE Branch(h.a, u.r, FrameRet(u.gesture, u.gesture_changed, h.completed_stroke), h.exc)

\* run, the branch "else" when writing: o is the outcome of end_stroke; reset is
\* not reached when that raised.
HandLost(a, r, o) ==
    Branch([a EXCEPT !.is_writing = FALSE, !.stroke_tracker = o.t],
           IF o.exc # NoExc THEN r ELSE reset(r),
           FrameRet(GESTURE_NONE, FALSE, None), o.exc)

\* run, the branch "else" (no hand detected).
NoHandBranch(a, r) ==
    IF a.is_writing
    THEN HandLost(a, r, end_stroke(a.stroke_tracker))
    ELSE Branch(a, reset(r), FrameRet(GESTURE_NONE, FALSE, None), NoExc)

\* run, "Handle key presses" ('h' and the other keys change nothing here).
HandleKey(a, key) ==
    IF key = "c"
    THEN [a EXCEPT !.stroke_tracker = clear_all_strokes(@).t, !.space_count = 0]
    ELSE a

\* What call records of the tracker as it was when the pass began.
FramePre(t) == [is_tracking |-> t.is_tracking, stroke_count |-> Len(t.all_strokes)]

\* The rest of a pass of the loop, from the state b one of the branches left.
FrameEnd(hand_detected, b, key) ==
    /\ tracker' = (IF b.exc = NoExc THEN HandleKey(b.a, key) ELSE b.a).stroke_tracker
    /\ is_writing' = b.a.is_writing
    /\ space_count' = (IF b.exc = NoExc THEN HandleKey(b.a, key) ELSE b.a).space_count
    /\ recognizer' = b.r
    /\ running' = IF b.exc # NoExc THEN "raised" ELSE "run"
    /\ call' = Called("frame",
                      [hand_detected |-> hand_detected,
                       key |-> IF b.exc = NoExc THEN key ELSE "none"],
                      FramePre(tracker), b.ret, b.exc)
    /\ UNCHANGED history

\* The bounds of the model on a pass: the stroke in progress has room for the
\* point the pass would add to it (a is the state after handle_gesture_actions),
\* and the pass leaves the other counters within their bounds.
HasRoom(a, point, max_raw) ==
    (a.is_writing /\ Accepts(a.stroke_tracker, point))
        => Len(a.stroke_tracker.current_stroke_raw) < max_raw

InBounds(b, max_strokes, max_hold) ==
    /\ Len(b.a.stroke_tracker.all_strokes) <= max_strokes
    /\ b.r.gesture_frame_count <= max_hold
    /\ b.a.space_count <= MaxSpace

\* A pass with a hand in the frame.
PassWithHand(hands, points, keys, max_raw, max_strokes, max_hold) ==
    /\ running = "run"
    /\ \E hand \in hands, point \in points, key \in keys :
          \E u \in {update_gesture(recognizer, Some(hand))} :
             \E h \in {handle_gesture_actions(App(tracker, is_writing, space_count),
                                              u.gesture, u.gesture_changed, Some(point))} :
                /\ h.exc = NoExc => HasRoom(h.a, point, max_raw)
                /\ \E b \in {AfterHandle(h, u, Some(point))} :
                      /\ InBounds(b, max_strokes, max_hold)
                      /\ FrameEnd(TRUE, b, key)

FrameWithHand ==
    PassWithHand(SampleHands, TipPoints, Keys, MaxFrameRaw, MaxFrameStrokes, MaxHold)

FrameWithoutHand ==
    /\ running = "run"
    /\ \E key \in Keys :
          \E b \in {NoHandBranch(App(tracker, is_writing, space_count), recognizer)} :
             /\ InBounds(b, MaxFrameStrokes, MaxHold)
             /\ FrameEnd(FALSE, b, key)

Next ==
    \/ FrameWithHand
    \/ FrameWithoutHand

Spec == Init /\ [][Next]_vars

----------------------------------------------------------------------------
(* The frame loop fed the frames of scenario A: a hand in every frame, its   *)
(* pose the writing pose or the fist, its tip at one of the four points of   *)
(* the scenario, no key.                                                     *)

ScenarioHands == {Hand(TRUE, FALSE, FALSE, FALSE, <<40, 62>>),
                  Hand(FALSE, FALSE, FALSE, FALSE, <<40, 62>>)}

ScenarioPoints == <<(<<0, 0>>), (<<5, 0>>), (<<12, 0>>), (<<20, 0>>)>>

ScenarioFrame ==
    PassWithHand(ScenarioHands, {ScenarioPoints[i] : i \in 1..Len(ScenarioPoints)},
                 {"none"}, MaxScenarioRaw, MaxFrameStrokes, MaxScenarioHold)

NextScenarioA == ScenarioFrame

SpecScenarioA == Init /\ [][NextScenarioA]_vars

----------------------------------------------------------------------------
(* The gesture recognizer alone: update_gesture and reset called in any      *)
(* order, with a hand of SampleHands or with no landmarks.  history holds    *)
(* the labels detect_gesture gave the calls since creation or the last       *)
(* reset, the newest last; it keeps the newest GESTURE_HOLD_FRAMES of them.  *)

LandmarkInputs == {None} \cup {Some(hand) : hand \in SampleHands}

Newest(h, n) == IF Len(h) > n THEN SubSeq(h, Len(h) - n + 1, Len(h)) ELSE h

UpdateGesture == \E hand_landmarks \in LandmarkInputs :
    \E u \in {update_gesture(recognizer, hand_landmarks)} :
       /\ u.r.gesture_frame_count <= MaxHold
       /\ recognizer' = u.r
       /\ history' = Newest(Append(history, detect_gesture(hand_landmarks)),
                            GESTURE_HOLD_FRAMES)
       /\ call' = Called("update_gesture", hand_landmarks, None,
                         [gesture |-> u.gesture, gesture_changed |-> u.gesture_changed],
                         NoExc)
       /\ UNCHANGED <<tracker, is_writing, space_count, running>>

Reset ==
    /\ recognizer' = reset(recognizer)
    /\ history' = <<>>
    /\ call' = Called("reset", None, None, None, NoExc)
    /\ UNCHANGED <<tracker, is_writing, space_count, running>>

NextGesture ==
    \/ UpdateGesture
    \/ Reset

SpecGesture == Init /\ [][NextGesture]_vars

----------------------------------------------------------------------------
(* detect_gesture alone: the landmarks are drawn at the start, one call      *)
(* classifies them.                                                          *)

InitDetect ==
    /\ tracker = StrokeTracker(MIN_DISTANCE_THRESHOLD, TRUE, "savitzky_golay")
    /\ recognizer = GestureRecognizer(GESTURE_HOLD_FRAMES)
    /\ is_writing = FALSE
    /\ space_count = 0
    /\ running = "run"
    /\ call \in {Called("landmarks", hand_landmarks, None, None, NoExc) :
                    hand_landmarks \in {None} \cup {Some(hand) : hand \in Hands}}
    /\ history = <<>>

DetectGesture ==
    /\ call.op = "landmarks"
    /\ call' = Called("detect_gesture", call.arg, None,
                      Some(detect_gesture(call.arg)), NoExc)
    /\ UNCHANGED <<tracker, recognizer, is_writing, space_count, running, history>>

NextDetect == DetectGesture

SpecDetect == InitDetect /\ [][NextDetect]_vars

----------------------------------------------------------------------------
(* remove_duplicates alone: a point sequence and a minimum distance are      *)
(* drawn at the start, one call filters the sequence.  The points lie 1, 2   *)
(* and 3 apart on a line, and one off it, so that distances below, at and    *)
(* above each minimum occur.                                                 *)

DedupPoints == {<<0, 0>>, <<1, 0>>, <<2, 0>>, <<3, 0>>, <<1, 1>>}

MinDistances == 0..3

SeqsUpTo(S, n) == UNION {[1..k -> S] : k \in 0..n}

InitRemoveDuplicates ==
    /\ tracker = StrokeTracker(MIN_DISTANCE_THRESHOLD, TRUE, "savitzky_golay")
    /\ recognizer = GestureRecognizer(GESTURE_HOLD_FRAMES)
    /\ is_writing = FALSE
    /\ space_count = 0
    /\ running = "run"
    /\ call \in {Called("points", [points |-> points, min_distance |-> min_distance],
                        None, None, NoExc) :
                    points \in SeqsUpTo(DedupPoints, MaxDedupLen),
                    min_distance \in MinDistances}
    /\ history = <<>>

RemoveDuplicates ==
    /\ call.op = "points"
    /\ call' = Called("remove_duplicates", call.arg, None,
                      Some(remove_duplicates(call.arg.points, call.arg.min_distance)),
                      NoExc)
    /\ UNCHANGED <<tracker, recognizer, is_writing, space_count, running, history>>

NextRemoveDuplicates == RemoveDuplicates

SpecRemoveDuplicates == InitRemoveDuplicates /\ [][NextRemoveDuplicates]_vars

----------------------------------------------------------------------------
(* douglas_peucker_simplify alone: a point sequence and a tolerance (0 or    *)
(* more) are drawn at the start, one call simplifies the sequence.  Three of *)
(* the points lie on a line, so that a stroke can go along it and back, and  *)
(* two lie 1 and 3 off it.                                                   *)

SimplifyPoints == {<<0, 0>>, <<5, 0>>, <<10, 0>>, <<5, 1>>, <<5, 3>>}

Epsilons == 0..2

InitSimplify ==
    /\ tracker = StrokeTracker(MIN_DISTANCE_THRESHOLD, TRUE, "savitzky_golay")
    /\ recognizer = GestureRecognizer(GESTURE_HOLD_FRAMES)
    /\ is_writing = FALSE
    /\ space_count = 0
    /\ running = "run"
    /\ call \in {Called("points", [points |-> points, epsilon |-> epsilon],
                        None, None, NoExc) :
                    points \in SeqsUpTo(SimplifyPoints, MaxSimplifyLen),
                    epsilon \in Epsilons}
    /\ history = <<>>

DouglasPeuckerSimplify ==
    /\ call.op = "points"
    /\ call' = Called("douglas_peucker_simplify", call.arg, None,
                      Some(douglas_peucker_simplify(call.arg.points, call.arg.epsilon)),
                      NoExc)
    /\ UNCHANGED <<tracker, recognizer, is_writing, space_count, running, history>>

NextSimplify == DouglasPeuckerSimplify

SpecSimplify == InitSimplify /\ [][NextSimplify]_vars

----------------------------------------------------------------------------
(* savitzky_golay_smooth alone, on the sequences too short for the window it *)
(* would filter with (window_length made odd, and polyorder + 2 at least):   *)
(* the arguments are drawn at the start, one call smooths the sequence.  The *)
(* windows are the one of the preview on 4 points (4), the one of the final  *)
(* pass (7) and a shorter one (3); polyorder is 3 as in every call of the    *)
(* code.                                                                     *)

SavgolPoints == {<<0, 0>>, <<5, 0>>, <<12, 0>>, <<3, 4>>}

SavgolWindows == {3, 4, 7}

SavgolPolyorder == 3

AdjustedWindow(window_length, polyorder) ==
    Max(IF window_length % 2 = 0 THEN window_length + 1 ELSE window_length,
        polyorder + 2)

InitSavgol ==
    /\ tracker = StrokeTracker(MIN_DISTANCE_THRESHOLD, TRUE, "savitzky_golay")
    /\ recognizer = GestureRecognizer(GESTURE_HOLD_FRAMES)
    /\ is_writing = FALSE
    /\ space_count = 0
    /\ running = "run"
    /\ call \in {Called("points",
                        [points |-> points, window_length |-> window_length,
                         polyorder |-> SavgolPolyorder],
                        None, None, NoExc) :
                    points \in {q \in SeqsUpTo(SavgolPoints, MaxSavgolLen) :
                                  \E w \in SavgolWindows :
                                     Len(q) < AdjustedWindow(w, SavgolPolyorder)},
                    window_length \in SavgolWindows}
    /\ Len(call.arg.points) < AdjustedWindow(call.arg.window_length, call.arg.polyorder)
    /\ history = <<>>

SavitzkyGolaySmooth ==
    /\ call.op = "points"
    /\ \E r \in {savitzky_golay_smooth(call.arg.points, call.arg.window_length,
                                       call.arg.polyorder)} :
          call' = Called("savitzky_golay_smooth", call.arg, None, Some(r.val), r.exc)
    /\ UNCHANGED <<tracker, recognizer, is_writing, space_count, running, history>>

NextSavgol == SavitzkyGolaySmooth

SpecSavgol == InitSavgol /\ [][NextSavgol]_vars

----------------------------------------------------------------------------
(* multi_pass_smooth alone: the points and the list of methods (or no list)  *)
(* are drawn at the start, one call smooths the points.                      *)

MultiPassPoints == {<<0, 0>>, <<1, 0>>, <<10, 0>>, <<4, 8>>}

\* The (method_name, kwargs) pairs of the lists: the three of the default
\* chain, a moving average over 3 points and a name smooth_stroke does not know.
MultiPassMethods ==
    {DefaultMethods[i] : i \in 1..3}
        \cup {[name |-> "moving_average", kwargs |-> [window_size |-> 3]],
              [name |-> "median", kwargs |-> <<>>]}

InitMultiPass ==
    /\ tracker = StrokeTracker(MIN_DISTANCE_THRESHOLD, TRUE, "savitzky_golay")
    /\ recognizer = GestureRecognizer(GESTURE_HOLD_FRAMES)
    /\ is_writing = FALSE
    /\ space_count = 0
    /\ running = "run"
    /\ call \in {Called("points", [points |-> points, methods |-> methods],
                        None, None, NoExc) :
                    points \in SeqsUpTo(MultiPassPoints, MaxMultiPassLen),
                    methods \in {None} \cup {Some(l) : l \in SeqsUpTo(MultiPassMethods, MaxPasses)}}
    /\ history = <<>>

MultiPassSmooth ==
    /\ call.op = "points"
    /\ \E r \in {multi_pass_smooth(call.arg.points, call.arg.methods)} :
          call' = Called("multi_pass_smooth", call.arg, None,
                         IF r.exc = NoExc THEN Some(r.val) ELSE None, r.exc)
    /\ UNCHANGED <<tracker, recognizer, is_writing, space_count, running, history>>

NextMultiPass == MultiPassSmooth

SpecMultiPass == InitMultiPass /\ [][NextMultiPass]_vars

----------------------------------------------------------------------------
(* The functions of StrokeSmoother called with their default parameters: the *)
(* points are drawn at the start, one call of one of the functions follows.  *)

DefaultPoints == {<<0, 0>>, <<1, 0>>, <<10, 0>>, <<4, 8>>, <<-3, 7>>}

SmootherFunctions ==
    {"moving_average_smooth", "gaussian_smooth", "savitzky_golay_smooth",
     "spline_smooth", "kalman_smooth", "remove_duplicates",
     "douglas_peucker_simplify", "smooth_stroke", "multi_pass_smooth"}

\* function(points), every other parameter left to its default.
CallWithDefaults(function, points) ==
    CASE function = "moving_average_smooth" -> moving_average_smooth(points, 5)
      [] function = "gaussian_smooth" -> gaussian_smooth(points, 20)
      [] function = "savitzky_golay_smooth" -> savitzky_golay_smooth(points, 11, 3)
      [] function = "spline_smooth" -> spline_smooth(points, 0, None)
      [] function = "kalman_smooth" -> kalman_smooth(points, "1e-5", "1e-1")
      [] function = "remove_duplicates" -> Returned(remove_duplicates(points, MIN_DISTANCE))
      [] function = "douglas_peucker_simplify" -> Returned(douglas_peucker_simplify(points, 2))
      [] function = "smooth_stroke" -> smooth_stroke(points, "savitzky_golay", <<>>)
      [] function = "multi_pass_smooth" -> multi_pass_smooth(points, None)

InitDefaults ==
    /\ tracker = StrokeTracker(MIN_DISTANCE_THRESHOLD, TRUE, "savitzky_golay")
    /\ recognizer = GestureRecognizer(GESTURE_HOLD_FRAMES)
    /\ is_writing = FALSE
    /\ space_count = 0
    /\ running = "run"
    /\ call \in {Called("points", [points |-> points], None, None, NoExc) :
                    points \in SeqsUpTo(DefaultPoints, MaxDefaultLen)}
    /\ history = <<>>

CallSmootherFunction ==
    /\ call.op = "points"
    /\ \E function \in SmootherFunctions :
          \E r \in {CallWithDefaults(function, call.arg.points)} :
             call' = Called(function, call.arg, None,
                            IF r.exc = NoExc THEN Some(r.val) ELSE None, r.exc)
    /\ UNCHANGED <<tracker, recognizer, is_writing, space_count, running, history>>

NextDefaults == CallSmootherFunction

SpecDefaults == InitDefaults /\ [][NextDefaults]_vars

----------------------------------------------------------------------------
(* The claims.  In an action formula the unprimed variables are the state    *)
(* before the call that call' records, the primed ones the state after it.   *)

\* C1 (SpecGesture): in a run of update_gesture calls since creation or the
\* last reset, a call changes the confirmed label exactly when the label
\* detected by it and by the calls before it, GESTURE_HOLD_FRAMES calls in all,
\* is one label X other than the confirmed one, and then X is the new confirmed
\* label; a call that leaves the hold count below the threshold changes nothing.
C1_DebounceDeterminism ==
    [][call'.op = "update_gesture" =>
         LET N == recognizer.gesture_hold_frames
             h == history'
             X == h[Len(h)]
             held == Len(h) >= N /\ \A i \in 1..N : h[Len(h) + 1 - i] = X
             changes == recognizer'.confirmed_gesture # recognizer.confirmed_gesture
         IN /\ changes <=> (held /\ X # recognizer.confirmed_gesture)
            /\ changes => recognizer'.confirmed_gesture = X
            /\ recognizer'.gesture_frame_count < N => ~changes]_vars

\* C1, witness: STOP has been confirmed over WRITING on the frame that completed
\* its run of GESTURE_HOLD_FRAMES detections.
C1_StopConfirmedOverWriting ==
    /\ call.op = "update_gesture"
    /\ call.ret.gesture_changed
    /\ recognizer.confirmed_gesture = GESTURE_STOP
    /\ recognizer.previous_gesture = GESTURE_WRITING
    /\ recognizer.gesture_frame_count = GESTURE_HOLD_FRAMES
    /\ Len(history) = GESTURE_HOLD_FRAMES

\* C2 (SpecTracker), the claim as stated: while a stroke is tracked, add_point(p)
\* returns true and appends p if p is at least min_distance_threshold away from
\* the last raw point, and returns false and appends nothing if it is closer.
C2_JitterGate ==
    [][(call'.op = "add_point" /\ tracker.is_tracking) =>
         LET raw == tracker.current_stroke_raw
             far == SqDist(call'.arg, raw[Len(raw)])
                      >= tracker.min_distance_threshold * tracker.min_distance_threshold
         IN /\ far => /\ call'.ret = Some(TRUE)
                      /\ tracker'.current_stroke_raw = Append(raw, call'.arg)
            /\ ~far => /\ call'.ret = Some(FALSE)
                       /\ tracker'.current_stroke_raw = raw]_vars

\* C3 (SpecTracker): every stroke of the finished collection has at least 3 raw
\* points, and end_stroke on a tracked stroke of fewer than 3 raw points returns
\* none and leaves the collection as it was.
C3_StoredStrokesHaveThreePoints ==
    [][/\ \A i \in 1..Len(tracker'.all_strokes) :
             /\ Len(tracker'.all_strokes[i].raw_points) >= 3
             /\ tracker'.all_strokes[i].point_count >= 3
       /\ (call'.op = "end_stroke" /\ tracker.is_tracking
           /\ Len(tracker.current_stroke_raw) < 3)
            => /\ call'.ret = None
               /\ tracker'.all_strokes = tracker.all_strokes]_vars

\* C3, witness: end_stroke has discarded a tracked stroke of 2 raw points while
\* the collection held a stroke.
C3_ShortStrokeDiscarded ==
    /\ call.op = "end_stroke"
    /\ call.pre.is_tracking
    /\ call.pre.point_count = 2
    /\ call.pre.stroke_count = 1
    /\ call.ret = None
    /\ Len(tracker.all_strokes) = 1

\* C4 (SpecTracker), the claim as stated: end_stroke on a tracked stroke of at
\* least 3 raw points appends one record to the end of the collection, with the
\* raw points and the final smoothed points, returns those smoothed points and
\* leaves the tracker not tracking with an empty current stroke.
C4_EndStrokeStoresTheStroke ==
    [][(call'.op = "end_stroke" /\ tracker.is_tracking
        /\ Len(tracker.current_stroke_raw) >= 3) =>
         LET old == tracker.all_strokes
             new == tracker'.all_strokes
         IN /\ call'.exc = NoExc
            /\ call'.ret # None
            /\ Len(new) = Len(old) + 1
            /\ SubSeq(new, 1, Len(old)) = old
            /\ new[Len(new)].raw_points = tracker.current_stroke_raw
            /\ new[Len(new)].points = call'.ret[1]
            /\ ~tracker'.is_tracking
            /\ tracker'.current_stroke = <<>>]_vars

\* C5 (SpecTracker), the claim as stated: with smoothing enabled, end_stroke on
\* a tracked stroke of at least 3 raw points raises nothing and returns a point
\* sequence.
C5_NoSmoothingFailureEscapes ==
    [][(call'.op = "end_stroke" /\ tracker.is_tracking /\ tracker.enable_smoothing
        /\ Len(tracker.current_stroke_raw) >= 3) =>
         (call'.exc = NoExc /\ call'.ret # None)]_vars

\* C6 (SpecScenarioA), the claim as stated: a pass that confirms WRITING opens a
\* stroke at the finger tip, on the frame that takes the hold count to
\* GESTURE_HOLD_FRAMES; with the four points of the scenario accepted into the raw
\* sequence, the pass that confirms STOP ends the stroke, stores it and returns
\* a smoothed result of 4 points.
C6_ScenarioA ==
    [][/\ (call'.op = "frame" /\ ~is_writing /\ call'.ret.gesture_changed
           /\ call'.ret.gesture = GESTURE_WRITING)
            => /\ recognizer'.gesture_frame_count = GESTURE_HOLD_FRAMES
               /\ tracker'.is_tracking
               /\ Len(tracker'.current_stroke_raw) = 1
       /\ (call'.op = "frame" /\ is_writing /\ tracker.is_tracking
           /\ tracker.current_stroke_raw = ScenarioPoints
           /\ call'.ret.gesture_changed /\ call'.ret.gesture = GESTURE_STOP)
            => /\ call'.exc = NoExc
               /\ running' = "run"
               /\ call'.ret.completed_stroke # None
               /\ Len(call'.ret.completed_stroke[1]) = 4
               /\ Len(tracker'.all_strokes) = Len(tracker.all_strokes) + 1
               /\ ~tracker'.is_tracking]_vars

\* C7 (Spec): after a pass on which CLEAR became the confirmed gesture the
\* collection holds no stroke, the raw and the smoothed sequence of the stroke
\* in progress are empty and the tracker is not tracking.
C7_ClearEmptiesEverything ==
    (call.op = "frame" /\ call.ret.gesture_changed /\ call.ret.gesture = GESTURE_CLEAR)
        => /\ tracker.all_strokes = <<>>
           /\ tracker.current_stroke_raw = <<>>
           /\ tracker.current_stroke = <<>>
           /\ ~tracker.is_tracking

\* C7, witness: CLEAR has been confirmed on a pass that began with a finished
\* stroke in the collection and a stroke in progress.
C7_ClearedWithStrokes ==
    /\ call.op = "frame"
    /\ call.ret.gesture_changed
    /\ call.ret.gesture = GESTURE_CLEAR
    /\ call.pre.is_tracking
    /\ call.pre.stroke_count >= 1

\* C8 (SpecTracker), the claim as stated: with smoothing enabled and one of the
\* five methods configured, an add_point that is accepted and makes the raw
\* sequence longer than 3 points raises nothing, returns true and leaves the
\* current stroke equal to the configured method applied to the whole raw
\* sequence.
C8_PreviewByConfiguredMethod ==
    [][(call'.op = "add_point" /\ tracker.is_tracking /\ tracker.enable_smoothing
        /\ tracker.smoothing_method \in smoothing_methods
        /\ tracker'.current_stroke_raw = Append(tracker.current_stroke_raw, call'.arg)
        /\ Len(tracker'.current_stroke_raw) > 3) =>
         LET raw == tracker'.current_stroke_raw
             m == tracker.smoothing_method
             applied == IF m = "savitzky_golay"
                        THEN smooth_stroke(raw, m, [window_length |-> Min(7, Len(raw)),
                                                    polyorder |-> Min(3, Len(raw) - 1)])
                        ELSE smooth_stroke(raw, m, <<>>)
         IN /\ call'.exc = NoExc
            /\ call'.ret = Some(TRUE)
            /\ applied.exc = NoExc
            /\ tracker'.current_stroke = applied.val]_vars

\* C9 (SpecDetect): detect_gesture returns the label of the first rule that
\* matches, in the order CLEAR (pinch, ring and pinky not extended), SPACE (index
\* and middle extended, ring and pinky not), WRITING (index extended, middle,
\* ring and pinky not), STOP (no finger and not the thumb extended), and NONE
\* when none matches or no landmarks are given.
C9_FirstMatchingRule ==
    call.op = "detect_gesture" =>
        IF call.arg = None
        THEN call.ret = Some(GESTURE_NONE)
        ELSE LET hand == call.arg[1]
                 wrist == hand.landmark[WRIST]
                 pinch == SqDist(hand.landmark[THUMB_TIP], hand.landmark[INDEX_TIP]) < 25
                 index == is_finger_extended(hand, INDEX_TIP, INDEX_MCP, wrist)
                 middle == is_finger_extended(hand, MIDDLE_TIP, MIDDLE_MCP, wrist)
                 ring == is_finger_extended(hand, RING_TIP, RING_MCP, wrist)
                 pinky == is_finger_extended(hand, PINKY_TIP, PINKY_MCP, wrist)
                 thumb == is_thumb_extended(hand)
                 clear == pinch /\ ~ring /\ ~pinky
                 space == index /\ middle /\ ~ring /\ ~pinky
                 writing == index /\ ~middle /\ ~ring /\ ~pinky
                 stop == ~index /\ ~middle /\ ~ring /\ ~pinky /\ ~thumb
             IN /\ clear => call.ret = Some(GESTURE_CLEAR)
                /\ (~clear /\ space) => call.ret = Some(GESTURE_SPACE)
                /\ (~clear /\ ~space /\ writing) => call.ret = Some(GESTURE_WRITING)
                /\ (~clear /\ ~space /\ ~writing /\ stop) => call.ret = Some(GESTURE_STOP)
                /\ (~clear /\ ~space /\ ~writing /\ ~stop) => call.ret = Some(GESTURE_NONE)

\* C9, witness: a hand that pinches with index and middle extended, which matches
\* the rules of CLEAR and of SPACE, has been classified CLEAR.
C9_PinchWithTwoFingersIsClear ==
    /\ call.op = "detect_gesture"
    /\ call.arg # None
    /\ SqDist(call.arg[1].landmark[THUMB_TIP], call.arg[1].landmark[INDEX_TIP]) < 25
    /\ is_finger_extended(call.arg[1], INDEX_TIP, INDEX_MCP, call.arg[1].landmark[WRIST])
    /\ is_finger_extended(call.arg[1], MIDDLE_TIP, MIDDLE_MCP, call.arg[1].landmark[WRIST])
    /\ call.ret = Some(GESTURE_CLEAR)

\* C10 (SpecTracker), the claim as stated: the add_point that follows
\* start_stroke(p) returns true and appends its point, whatever its distance to p.
C10_FirstPointAlwaysAccepted ==
    [][(call.op = "start_stroke" /\ call'.op = "add_point") =>
         /\ call'.ret = Some(TRUE)
         /\ tracker'.current_stroke_raw = Append(tracker.current_stroke_raw, call'.arg)]_vars

\* C10, amended: an add_point made while the stroke holds only the point p it
\* was started with (the first add_point after start_stroke(p) included) is held
\* to the distance test against p: it returns true and appends its point if the
\* point is at least min_distance_threshold away from p, and returns false and
\* appends nothing if it is closer.
C10_FirstPointGatedAgainstStart ==
    [][(call'.op = "add_point" /\ tracker.is_tracking
        /\ Len(tracker.current_stroke_raw) = 1) =>
         LET p == tracker.current_stroke_raw[1]
             far == SqDist(call'.arg, p)
                      >= tracker.min_distance_threshold * tracker.min_distance_threshold
         IN /\ call'.exc = NoExc
            /\ far => /\ call'.ret = Some(TRUE)
                      /\ tracker'.current_stroke_raw = <<p, call'.arg>>
            /\ ~far => /\ call'.ret = Some(FALSE)
                       /\ tracker'.current_stroke_raw = <<p>>]_vars

\* C10, witness: add_point on a stroke that holds its starting point only has
\* rejected another point, closer to it than the threshold.
C10_FirstPointRejected ==
    /\ call.op = "add_point"
    /\ call.pre.is_tracking
    /\ call.pre.point_count = 1
    /\ call.ret = Some(FALSE)
    /\ tracker.current_stroke_raw # <<call.arg>>
    /\ Len(tracker.current_stroke_raw) = 1

\* C11 (SpecGesture): update_gesture returns changed = true exactly when the
\* confirmed label after the call differs from the one before it, which is
\* exactly when the hold count has reached the threshold and the raw label
\* differs from the confirmed label; the label it returns is the confirmed label
\* after the call.
C11_ChangedIffConfirmedChanges ==
    [][call'.op = "update_gesture" =>
         LET differs == recognizer'.confirmed_gesture # recognizer.confirmed_gesture
             due == /\ recognizer'.gesture_frame_count >= recognizer.gesture_hold_frames
                    /\ recognizer'.current_gesture # recognizer.confirmed_gesture
         IN /\ call'.ret.gesture_changed <=> differs
            /\ differs <=> due
            /\ call'.ret.gesture = recognizer'.confirmed_gesture]_vars

\* C11, witness: a call has returned changed = true with a label other than
\* NONE, and the hold count stands at the threshold.
C11_ChangeReported ==
    /\ call.op = "update_gesture"
    /\ call.ret.gesture_changed
    /\ call.ret.gesture = GESTURE_WRITING
    /\ recognizer.confirmed_gesture = GESTURE_WRITING
    /\ recognizer.gesture_frame_count = recognizer.gesture_hold_frames

\* C12 (SpecGesture): an update_gesture call that changes the confirmed label
\* leaves in previous_gesture the label that was confirmed before the call, and
\* a call that does not change the confirmed label does not change
\* previous_gesture; so previous_gesture is the label confirmed before the
\* latest change.
C12_PreviousIsLabelBeforeLatestChange ==
    [][call'.op = "update_gesture" =>
         IF recognizer'.confirmed_gesture # recognizer.confirmed_gesture
         THEN recognizer'.previous_gesture = recognizer.confirmed_gesture
         ELSE recognizer'.previous_gesture = recognizer.previous_gesture]_vars

\* C12, witness: after two changes (to WRITING, then to STOP) a call that changed
\* nothing has left previous_gesture at WRITING.
C12_PreviousKeptAfterTwoChanges ==
    /\ call.op = "update_gesture"
    /\ ~call.ret.gesture_changed
    /\ recognizer.confirmed_gesture = GESTURE_STOP
    /\ recognizer.previous_gesture = GESTURE_WRITING

\* C13 (Spec), the claim as stated: after a pass in which no hand is detected
\* the raw, the confirmed and the previous label are NONE and the hold count is
\* 0; and a pass with a hand confirms a change only with the hold count at the
\* threshold or above, so a label needs GESTURE_HOLD_FRAMES passes after the gap
\* to be confirmed.
C13_GapResetsGesture ==
    [][/\ (call'.op = "frame" /\ ~call'.arg.hand_detected)
            => /\ recognizer'.current_gesture = GESTURE_NONE
               /\ recognizer'.confirmed_gesture = GESTURE_NONE
               /\ recognizer'.previous_gesture = GESTURE_NONE
               /\ recognizer'.gesture_frame_count = 0
       /\ (call'.op = "frame" /\ call'.arg.hand_detected /\ call'.ret.gesture_changed)
            => recognizer'.gesture_frame_count >= GESTURE_HOLD_FRAMES]_vars

\* C14 (Spec), the claim as stated: after a pass in which no hand is detected the
\* app is not writing and the tracker is not tracking; and, no key pressed, a
\* stroke that was in progress with 3 raw points or more is the last record of
\* the collection, the records before it unchanged.
C14_HandLossCommitsStroke ==
    [][(call'.op = "frame" /\ ~call'.arg.hand_detected) =>
         /\ ~is_writing'
         /\ ~tracker'.is_tracking
         /\ (is_writing /\ tracker.is_tracking /\ call'.arg.key = "none"
             /\ Len(tracker.current_stroke_raw) >= MIN_STROKE_POINTS)
              => /\ call'.exc = NoExc
                 /\ Len(tracker'.all_strokes) = Len(tracker.all_strokes) + 1
                 /\ SubSeq(tracker'.all_strokes, 1, Len(tracker.all_strokes))
                      = tracker.all_strokes
                 /\ tracker'.all_strokes[Len(tracker'.all_strokes)].raw_points
                      = tracker.current_stroke_raw]_vars

\* C15 (Spec), the claim as stated: at the end of a pass with a hand on which
\* the confirmed gesture changed to WRITING the tracker is tracking a stroke.
C15_WritingConfirmedOpensStroke ==
    [][(call'.op = "frame" /\ call'.arg.hand_detected /\ call'.ret.gesture_changed
        /\ call'.ret.gesture = GESTURE_WRITING) => tracker'.is_tracking]_vars

\* C16 (SpecTracker): set_smoothing_method with a name that is not one of the
\* five methods returns false and leaves every field of the tracker as it was;
\* with one of the five it returns true and the configured method is that name.
C16_UnknownMethodRejected ==
    [][call'.op = "set_smoothing_method" =>
         IF call'.arg \in {"moving_average", "gaussian", "savitzky_golay", "spline", "kalman"}
         THEN /\ call'.ret = Some(TRUE)
              /\ call'.exc = NoExc
              /\ tracker'.smoothing_method = call'.arg
         ELSE /\ call'.ret = Some(FALSE)
              /\ call'.exc = NoExc
              /\ tracker' = tracker]_vars

\* C16, witness: an unknown name has been refused by a tracker whose method had
\* been set to kalman before, and kalman is still configured.
C16_UnknownNameRefused ==
    /\ call.op = "set_smoothing_method"
    /\ call.arg = "median"
    /\ call.ret = Some(FALSE)
    /\ tracker.smoothing_method = "kalman"

\* C17 (SpecTracker): add_point on a tracker that is not tracking returns false
\* and leaves the raw sequence, the smoothed sequence, the last point and the
\* collection as they were.
C17_AddPointWhenNotTracking ==
    [][(call'.op = "add_point" /\ ~tracker.is_tracking) =>
         /\ call'.ret = Some(FALSE)
         /\ call'.exc = NoExc
         /\ tracker'.current_stroke_raw = tracker.current_stroke_raw
         /\ tracker'.current_stroke = tracker.current_stroke
         /\ tracker'.last_point = tracker.last_point
         /\ tracker'.all_strokes = tracker.all_strokes]_vars

\* C17, witness: add_point has returned false on a tracker that was not
\* tracking, for a point far enough from the last point of the stroke finished
\* before.
C17_FarPointRefusedWhenNotTracking ==
    /\ call.op = "add_point"
    /\ ~call.pre.is_tracking
    /\ call.ret = Some(FALSE)
    /\ tracker.last_point # None
    /\ SqDist(call.arg, tracker.last_point)
         >= tracker.min_distance_threshold * tracker.min_distance_threshold
    /\ Len(tracker.all_strokes) >= 1

\* C18 (SpecTracker): end_stroke leaves the collection as it was or adds the
\* stroke it ends after the strokes already there; clear_last_stroke on a
\* collection that is not empty returns its last stroke and leaves the strokes
\* before it, in their order; on an empty collection it returns none and changes
\* nothing.
C18_LastStrokeRemovedInOrder ==
    [][/\ call'.op = "end_stroke" =>
            \/ tracker'.all_strokes = tracker.all_strokes
            \/ /\ Len(tracker'.all_strokes) = Len(tracker.all_strokes) + 1
               /\ SubSeq(tracker'.all_strokes, 1, Len(tracker.all_strokes))
                    = tracker.all_strokes
               /\ tracker'.all_strokes[Len(tracker'.all_strokes)].raw_points
                    = tracker.current_stroke_raw
       /\ call'.op = "clear_last_stroke" =>
            IF tracker.all_strokes = <<>>
            THEN call'.ret = None /\ tracker' = tracker
            ELSE /\ call'.ret = Some(tracker.all_strokes[Len(tracker.all_strokes)])
                 /\ tracker'.all_strokes
                      = SubSeq(tracker.all_strokes, 1, Len(tracker.all_strokes) - 1)]_vars

\* C18, witness: clear_last_stroke on a collection of two different strokes has
\* returned one of them and left the other.
C18_LaterOfTwoStrokesRemoved ==
    /\ call.op = "clear_last_stroke"
    /\ call.pre.stroke_count = 2
    /\ call.ret # None
    /\ Len(tracker.all_strokes) = 1
    /\ call.ret[1] # tracker.all_strokes[1]

\* C19 (SpecTracker): start_stroke, add_point, toggle_smoothing and
\* set_smoothing_method leave the collection as it was; end_stroke leaves it or
\* adds one stroke at its end, clear_last_stroke leaves it or removes its last
\* stroke, clear_all_strokes empties it: no call changes or reorders a stroke
\* that stays.
C19_CollectionChangedByThreeOperationsOnly ==
    [][LET old == tracker.all_strokes
           new == tracker'.all_strokes
       IN \/ new = old
          \/ /\ call'.op = "end_stroke"
             /\ Len(new) = Len(old) + 1
             /\ SubSeq(new, 1, Len(old)) = old
          \/ /\ call'.op = "clear_last_stroke"
             /\ Len(old) > 0
             /\ new = SubSeq(old, 1, Len(old) - 1)
          \/ /\ call'.op = "clear_all_strokes"
             /\ new = <<>>]_vars

\* C19, witness: start_stroke has been called on a tracker with a finished
\* stroke, and the stroke is still in the collection.
C19_StrokeKeptAcrossStart ==
    /\ call.op = "start_stroke"
    /\ call.pre.stroke_count = 1
    /\ Len(tracker.all_strokes) = 1
    /\ tracker.is_tracking

\* C20 (SpecRemoveDuplicates): remove_duplicates applied to its own result
\* returns that result; and its result is the first point followed, in order, by
\* the later points that are at least the minimum distance from the point kept
\* last before them.
C20_RemoveDuplicatesIdempotent ==
    call.op = "remove_duplicates" =>
        LET s == call.arg.points
            m == call.arg.min_distance
            r == call.ret[1]
            RECURSIVE Kept(_)
            Kept(n) == IF n = 0 THEN <<>>
                       ELSE IF n = 1 THEN <<s[1]>>
                       ELSE IF SqDist(s[n], Kept(n - 1)[Len(Kept(n - 1))]) >= m * m
                            THEN Append(Kept(n - 1), s[n])
                            ELSE Kept(n - 1)
        IN /\ remove_duplicates(r, m) = r
           /\ r = Kept(Len(s))

\* C20, witness: of four points the two in the middle, closer than the minimum
\* to the first, have been dropped and the last, exactly the minimum from the
\* first, has been kept.
C20_MiddlePointsDropped ==
    /\ call.op = "remove_duplicates"
    /\ Len(call.arg.points) = 4
    /\ Len(call.ret[1]) = 2
    /\ call.ret[1][1] = call.arg.points[1]
    /\ call.ret[1][2] = call.arg.points[4]
    /\ SqDist(call.arg.points[1], call.arg.points[4])
         = call.arg.min_distance * call.arg.min_distance
    /\ call.arg.points[2] # call.arg.points[1]

\* C21 (SpecSimplify), the claim as stated: every point of the input that is
\* not in the result of douglas_peucker_simplify lies within epsilon of one of
\* the segments between consecutive points of the result.
C21_DiscardedPointsNearPolyline ==
    call.op = "douglas_peucker_simplify" =>
        LET s == call.arg.points
            eps == call.arg.epsilon
            r == call.ret[1]
            Dot(p, a, b) == (p[1] - a[1]) * (b[1] - a[1]) + (p[2] - a[2]) * (b[2] - a[2])
            Cross(p, a, b) == (b[1] - a[1]) * (p[2] - a[2]) - (b[2] - a[2]) * (p[1] - a[1])
            NearSegment(p, a, b) ==
                IF Dot(p, a, b) <= 0 THEN SqDist(p, a) <= eps * eps
                ELSE IF Dot(p, a, b) >= SqDist(a, b) THEN SqDist(p, b) <= eps * eps
                ELSE Cross(p, a, b) * Cross(p, a, b) <= eps * eps * SqDist(a, b)
        IN \A i \in 1..Len(s) :
              (\A k \in 1..Len(r) : r[k] # s[i])
                 => \E k \in 1..(Len(r) - 1) : NearSegment(s[i], r[k], r[k + 1])

\* C22 (SpecSimplify): the result of douglas_peucker_simplify is the input with
\* some of its points left out: the points at a set of places of the input, in
\* their order, the first and the last place among them.
C22_SimplifiedIsSubsequence ==
    call.op = "douglas_peucker_simplify" =>
        LET s == call.arg.points
            r == call.ret[1]
            At(I, k) == CHOOSE i \in I : Cardinality({j \in I : j < i}) = k - 1
            Pick(I) == [k \in 1..Cardinality(I) |-> s[At(I, k)]]
        IN \E I \in SUBSET (1..Len(s)) :
              /\ Len(s) > 0 => (1 \in I /\ Len(s) \in I)
              /\ r = Pick(I)

\* C22, witness: of four points the call has kept three, the first and the last
\* among them, and left one out.
C22_OnePointLeftOut ==
    /\ call.op = "douglas_peucker_simplify"
    /\ Len(call.arg.points) = 4
    /\ Len(call.ret[1]) = 3
    /\ call.ret[1][1] = call.arg.points[1]
    /\ call.ret[1][3] = call.arg.points[4]
    /\ call.ret[1][2] # call.arg.points[1]
    /\ call.ret[1][2] # call.arg.points[4]

\* C23 (SpecSavgol), the claim as stated: savitzky_golay_smooth on fewer points
\* than window_length returns the moving average of the points with the window
\* len(points) // 2.
C23_ShortInputGetsMovingAverage ==
    (call.op = "savitzky_golay_smooth"
     /\ Len(call.arg.points) < call.arg.window_length)
        => call.ret = Some(moving_average_smooth(call.arg.points,
                                                 Len(call.arg.points) \div 2).val)

\* C23, amended: on fewer points than window_length savitzky_golay_smooth returns
\* the points as they are; on window_length points or more, but fewer than the
\* window it would filter with (window_length made odd, and polyorder + 2 at
\* least), it returns their moving average with the window len(points) // 2.
C23_MovingAverageBelowAdjustedWindowOnly ==
    call.op = "savitzky_golay_smooth" =>
        LET points == call.arg.points
            w == call.arg.window_length
            odd == IF w % 2 = 0 THEN w + 1 ELSE w
            adjusted == IF odd >= call.arg.polyorder + 2 THEN odd
                        ELSE call.arg.polyorder + 2
        IN /\ call.exc = NoExc
           /\ Len(points) < w => call.ret = Some(points)
           /\ (Len(points) >= w /\ Len(points) < adjusted)
                => call.ret = Some(moving_average_smooth(points, Len(points) \div 2).val)

\* C23, witness: 4 points given with window_length 4 have come back as their
\* moving average, which is not the points themselves.
C23_FourPointsAveraged ==
    /\ call.op = "savitzky_golay_smooth"
    /\ Len(call.arg.points) = 4
    /\ call.arg.window_length = 4
    /\ call.ret # Some(call.arg.points)
    /\ call.ret = Some(moving_average_smooth(call.arg.points, 2).val)

\* C24 (SpecMultiPass): multi_pass_smooth(points, methods) gives what the listed
\* methods give when smooth_stroke applies them one after the other in list
\* order, each with its own kwargs to the output of the one before (an exception
\* of a pass being the outcome of the call); without a list the chain is kalman,
\* then savitzky_golay with window 7 and order 3, then gaussian with sigma 1.5.
C24_MultiPassIsComposition ==
    call.op = "multi_pass_smooth" =>
        LET points == call.arg.points
            kalman == [name |-> "kalman",
                       kwargs |-> [process_variance |-> "1e-5",
                                   measurement_variance |-> "1e-1"]]
            savgol == [name |-> "savitzky_golay",
                       kwargs |-> [window_length |-> 7, polyorder |-> 3]]
            gauss == [name |-> "gaussian", kwargs |-> [sigma |-> 15]]
            methods == IF call.arg.methods = None
                       THEN <<kalman, savgol, gauss>>
                       ELSE call.arg.methods[1]
            RECURSIVE Composed(_)
            Composed(k) ==
                IF k = 0
                THEN Returned(points)
                ELSE LET inner == Composed(k - 1)
                     IN IF inner.exc # NoExc
                        THEN inner
                        ELSE smooth_stroke(inner.val, methods[k].name, methods[k].kwargs)
            whole == Composed(Len(methods))
        IN /\ call.exc = whole.exc
           /\ whole.exc = NoExc => call.ret = Some(whole.val)

\* C24, witness: a list of two different methods has returned a value that the
\* same two methods in the other order, or the first of them alone, do not give.
C24_TwoPassesInOrder ==
    /\ call.op = "multi_pass_smooth"
    /\ call.arg.methods # None
    /\ call.exc = NoExc
    /\ LET methods == call.arg.methods[1]
       IN /\ Len(methods) = 2
          /\ methods[1] # methods[2]
          /\ LET first == smooth_stroke(call.arg.points, methods[1].name, methods[1].kwargs)
                 second == smooth_stroke(call.arg.points, methods[2].name, methods[2].kwargs)
             IN /\ first.exc = NoExc
                /\ second.exc = NoExc
                /\ call.ret # Some(first.val)
                /\ call.ret # Some(smooth_stroke(second.val, methods[1].name,
                                                 methods[1].kwargs).val)

\* C25 (SpecDefaults): given no point or one point, each of the five smoothing
\* methods with its default parameters, remove_duplicates,
\* douglas_peucker_simplify, smooth_stroke and multi_pass_smooth returns, without
\* raising, a sequence equal to the one it was given.
C25_ShortInputReturnedUnchanged ==
    (call.op \in SmootherFunctions /\ Len(call.arg.points) <= 1)
        => (call.exc = NoExc /\ call.ret = Some(call.arg.points))

\* C25, witness: gaussian_smooth has been called on a single point and has
\* returned it.
C25_SinglePointThroughGaussian ==
    /\ call.op = "gaussian_smooth"
    /\ Len(call.arg.points) = 1
    /\ call.ret = Some(call.arg.points)

C27_WritingFlagEqualsTracking ==
    (call.op = "frame" /\ call.exc = NoExc) => (is_writing = tracker.is_tracking)

\* C28 (SpecTracker): after any sequence of operations of the tracker, two
\* consecutive points of the raw sequence in progress, and of the raw_points of
\* every stored stroke, are at least min_distance_threshold apart (on the
\* squares), and while the tracker is tracking last_point is the last point of
\* the raw sequence.
C28_RawPointsKeepTheirDistance ==
    LET apart(raw) ==
            \A i \in 1..(Len(raw) - 1) :
               SqDist(raw[i], raw[i + 1])
                  >= tracker.min_distance_threshold * tracker.min_distance_threshold
    IN /\ apart(tracker.current_stroke_raw)
       /\ \A k \in 1..Len(tracker.all_strokes) : apart(tracker.all_strokes[k].raw_points)
       /\ tracker.is_tracking
            => /\ tracker.current_stroke_raw # <<>>
               /\ tracker.last_point
                    = tracker.current_stroke_raw[Len(tracker.current_stroke_raw)]

\* C28, witness: a stroke of 3 raw points is stored, a stroke with 3 raw points
\* is being tracked, and the last call was an add_point the tracker refused.
C28_RefusedWhileStoredAndTracking ==
    /\ call.op = "add_point"
    /\ call.ret = Some(FALSE)
    /\ tracker.is_tracking
    /\ Len(tracker.current_stroke_raw) = 3
    /\ Len(tracker.all_strokes) = 1
    /\ Len(tracker.all_strokes[1].raw_points) = 3

\* C29 (Spec): the gesture actions run only on a pass where update_gesture
\* reported a change.  On a pass with a hand and no key, with no change reported
\* no stroke is opened or ended, nothing is cleared and space_count stays; with
\* a change to SPACE reported space_count grows by exactly 1; and space_count
\* differs after the pass only if a change to SPACE or to CLEAR was reported.
C29_ActionsOnlyOnChange ==
    [][(call'.op = "frame" /\ call'.arg.hand_detected /\ call'.arg.key = "none") =>
         /\ ~call'.ret.gesture_changed
              => /\ space_count' = space_count
                 /\ is_writing' = is_writing
                 /\ tracker'.is_tracking = tracker.is_tracking
                 /\ tracker'.all_strokes = tracker.all_strokes
         /\ (call'.ret.gesture_changed /\ call'.ret.gesture = GESTURE_SPACE)
              => space_count' = space_count + 1
         /\ space_count' # space_count
              => /\ call'.ret.gesture_changed
                 /\ call'.ret.gesture \in {GESTURE_SPACE, GESTURE_CLEAR}]_vars

\* C29, witness: a pass has held the SPACE gesture that an earlier pass
\* confirmed, and space_count is 1.
C29_SpaceHeldCountedOnce ==
    /\ call.op = "frame"
    /\ call.arg.hand_detected
    /\ call.ret.gesture = GESTURE_SPACE
    /\ ~call.ret.gesture_changed
    /\ recognizer.gesture_frame_count > GESTURE_HOLD_FRAMES
    /\ space_count = 1

\* C30 (SpecTracker), the claim as stated: whenever the tracker is not tracking,
\* the raw sequence in progress and the smoothed sequence in progress are both
\* empty; and end_stroke called while not tracking returns none and leaves every
\* field as it was.
C30_NothingInProgressWhenNotTracking ==
    [][/\ ~tracker'.is_tracking
            => /\ tracker'.current_stroke_raw = <<>>
               /\ tracker'.current_stroke = <<>>
       /\ (call'.op = "end_stroke" /\ ~tracker.is_tracking)
            => /\ call'.ret = None
               /\ call'.exc = NoExc
               /\ tracker' = tracker]_vars

====
